---- MODULE Spec2Model ----
(***************************************************************************)
(* Liar's Dice CFR+ solver (liars_dice_rust): the game model of game.rs,   *)
(* the regret-matching node and the recursive solver of cfr.rs, and the    *)
(* parallel map-reduce driver of main.rs.                                  *)
(*                                                                         *)
(* f32 values are modelled as fixed-point integers: the value x is the     *)
(* integer nearest to x * SCALE, and every product and quotient rounds to  *)
(* the nearest representable value, as an f32 operation does.  Sums and    *)
(* differences are exact, as those of f32 are while they fit the           *)
(* significand.                                                            *)
(***************************************************************************)
EXTENDS Integers, Sequences, FiniteSets, TLC

(***************************************************************************)
(* Bounds of the model                                                     *)
(***************************************************************************)
\* faces a dealt die may show: rng.gen_range(1..=DICE_FACES) restricted to 1..MaxDealFace
MaxDealFace == 2
\* rayon::current_num_threads() of the modelled run
NumThreads == 3
\* largest iteration count given on the command line
MaxIterations == 6
\* number of representable steps between 0.0 and 1.0
SCALE == 4096

(***************************************************************************)
(* game.rs                                                                 *)
(***************************************************************************)
DICE_FACES == 6

Challenge == [kind |-> "Challenge", q |-> 0, f |-> 0]
Bid(q, f) == [kind |-> "Bid", q |-> q, f |-> f]

\* Option<(u8, u8)>: None is the empty tuple, Some((q, f)) is <<q, f>>
None == << >>
Some(q, f) == <<q, f>>

VARIABLES
  game,            \* SpecGame: the GameState being played
  is_terminal,     \* SpecGame: the value the last apply_action returned
  last_action,     \* SpecGame: the action last passed to apply_action
  actor,           \* SpecGame: the player who made that call
  p1_dice,         \* main: args[1]
  p2_dice,         \* main: args[2]
  iterations,      \* main: args[3]
  iters_per_thread,\* main: iterations / num_threads
  nodes,           \* train: the private table of every worker
  iter,            \* train: the iterations every worker has run
  parts,           \* reduce: the partial results not yet combined
  stack,           \* cfr: the activations of CFRTrainer::cfr, outermost first
  ret,             \* cfr: the value the last finished activation returned
  dealt,           \* train: the games GameState::new has dealt to this train call
  visits           \* cfr: the keys looked up so far in the running iteration

vars == <<game, is_terminal, last_action, actor, p1_dice, p2_dice, iterations,
          iters_per_thread, nodes, iter, parts, stack, ret, dealt, visits>>

gameVars == <<game, is_terminal, last_action, actor>>
trainVars == <<p1_dice, p2_dice, iterations, iters_per_thread, nodes, iter,
               parts>>
cfrVars == <<stack, ret, dealt, visits>>

\* the sorted hands of n dice that GameState::new can deal (faces within the bound)
RECURSIVE SortedHands(_, _)
SortedHands(n, lo) ==
  IF n = 0 THEN { << >> }
  ELSE UNION { { <<d>> \o h : h \in SortedHands(n - 1, d) } : d \in lo..MaxDealFace }

\* GameState::new with the dice the generator drew
NewGame(d1, d2, h1, h2) ==
  [dice_p1 |-> d1, dice_p2 |-> d2, hand_p1 |-> h1, hand_p2 |-> h2,
   current_bid |-> None, history |-> << >>, current_player |-> 0]

NewGames(d1, d2) ==
  { NewGame(d1, d2, h1, h2) : h1 \in SortedHands(d1, 1), h2 \in SortedHands(d2, 1) }

\* variant: the quantity loop runs one quantity past its upper end
QuantityLoop_PastTotal(lo, hi) ==
  IF hi + 1 < lo THEN << >>
  ELSE [k \in 1..((hi - lo + 2) * DICE_FACES) |->
          Bid(lo + ((k - 1) \div DICE_FACES), 1 + ((k - 1) % DICE_FACES))]

\* for q in lo..=hi { for f in 1..=DICE_FACES { push Bid(q, f) } }
QuantityLoop(lo, hi) ==
  IF hi < lo THEN << >>
  ELSE [k \in 1..((hi - lo + 1) * DICE_FACES) |->
          Bid(lo + ((k - 1) \div DICE_FACES), 1 + ((k - 1) % DICE_FACES))]

\* variant: the face loop starts one face early, at the face of the bid itself
FaceLoop_FromCurrent(q, lo) ==
  [k \in 1..(DICE_FACES - lo + 2) |-> Bid(q, lo + k - 2)]

\* for f in lo..=DICE_FACES { push Bid(q, f) }
FaceLoop(q, lo) ==
  IF DICE_FACES < lo THEN << >>
  ELSE [k \in 1..(DICE_FACES - lo + 1) |-> Bid(q, lo + k - 1)]

\* variant: Challenge is offered without an outstanding bid too
get_valid_actions_ChallengeAlways(g) ==
  LET total_dice == g.dice_p1 + g.dice_p2 IN
  IF g.current_bid # None
  THEN LET curr_q == g.current_bid[1]
           curr_f == g.current_bid[2]
       IN <<Challenge>> \o FaceLoop(curr_q, curr_f + 1) \o QuantityLoop(curr_q + 1, total_dice)
  ELSE <<Challenge>> \o QuantityLoop(1, total_dice)

\* variant: every bid there is stays on offer, whatever the outstanding bid
get_valid_actions_AnyBid(g) ==
  LET total_dice == g.dice_p1 + g.dice_p2 IN
  IF g.current_bid # None
  THEN <<Challenge>> \o QuantityLoop(1, total_dice)
  ELSE QuantityLoop(1, total_dice)

get_valid_actions(g) ==
  LET total_dice == g.dice_p1 + g.dice_p2 IN
  IF g.current_bid # None
  THEN LET curr_q == g.current_bid[1]
           curr_f == g.current_bid[2]
       IN <<Challenge>> \o FaceLoop(curr_q, curr_f + 1) \o QuantityLoop(curr_q + 1, total_dice)
  ELSE QuantityLoop(1, total_dice)

\* variant: a bid does not pass the turn
apply_action_KeepPlayer(g, action) ==
  IF action = Challenge
  THEN [state |-> g, terminal |-> TRUE]
  ELSE [state |-> [g EXCEPT !.current_bid = Some(action.q, action.f),
                            !.history = Append(@, action)],
        terminal |-> FALSE]

\* apply_action: the state after the call and the returned flag
\* variant: a bid is not pushed to the history
apply_action_NoPush(g, action) ==
  IF action = Challenge
  THEN [state |-> g, terminal |-> TRUE]
  ELSE [state |-> [g EXCEPT !.current_bid = Some(action.q, action.f),
                            !.current_player = 1 - @],
        terminal |-> FALSE]

apply_action(g, action) ==
  IF action = Challenge
  THEN [state |-> g, terminal |-> TRUE]
  ELSE [state |-> [g EXCEPT !.current_bid = Some(action.q, action.f),
                            !.history = Append(@, action),
                            !.current_player = 1 - @],
        terminal |-> FALSE]

\* the counting loop of get_payoff over hand_p1.iter().chain(hand_p2.iter())
RECURSIVE CountFace(_, _)
CountFace(hand, face) ==
  IF hand = << >> THEN 0
  ELSE (IF Head(hand) = face THEN 1 ELSE 0) + CountFace(Tail(hand), face)

\* variant: the bidder wins only with more dice than bid
get_payoff_Strict(g) ==
  IF g.current_bid # None
  THEN IF CountFace(g.hand_p1 \o g.hand_p2, g.current_bid[2]) > g.current_bid[1]
       THEN -1 ELSE 1
  ELSE 0

\* get_payoff in units of 1.0: -1, 0 or 1
get_payoff(g) ==
  IF g.current_bid # None
  THEN LET bid_q == g.current_bid[1]
           bid_f == g.current_bid[2]
           count == CountFace(g.hand_p1 \o g.hand_p2, bid_f)
           bidder_wins == count >= bid_q
       IN IF bidder_wins THEN -1 ELSE 1
  ELSE 0

\* u8::to_string, one character per element
DigitChar(d) == <<"0", "1", "2", "3", "4", "5", "6", "7", "8", "9">>[d + 1]

\* variant: only the last decimal digit is written
to_string_LastDigit(n) == <<DigitChar(n % 10)>>

RECURSIVE to_string(_)
to_string(n) ==
  IF n < 10 THEN <<DigitChar(n)>>
  ELSE to_string(n \div 10) \o <<DigitChar(n % 10)>>

\* my_hand.iter().map(|d| d.to_string()).collect()
RECURSIVE HandStr(_)
HandStr(hand) ==
  IF hand = << >> THEN << >>
  ELSE to_string(Head(hand)) \o HandStr(Tail(hand))

BidStr(bid) ==
  IF bid # None
  THEN to_string(bid[1]) \o <<"-">> \o to_string(bid[2])
  ELSE <<"N", "o", "n", "e">>

\* variant: the key is the hand alone
get_information_set_HandOnly(g) ==
  LET my_hand == IF g.current_player = 0 THEN g.hand_p1 ELSE g.hand_p2
  IN HandStr(my_hand) \o <<"|">>

\* variant: the key is written without the bid, as that of a state with none
get_information_set_NoBid(g) ==
  LET my_hand == IF g.current_player = 0 THEN g.hand_p1 ELSE g.hand_p2
  IN HandStr(my_hand) \o <<"|">> \o BidStr(None) \o <<"|">> \o to_string(Len(g.history))

\* variant: the key is always built from the first player's hand
get_information_set_FirstHand(g) ==
  HandStr(g.hand_p1) \o <<"|">> \o BidStr(g.current_bid) \o <<"|">>
    \o to_string(Len(g.history))

get_information_set(g) ==
  LET my_hand == IF g.current_player = 0 THEN g.hand_p1 ELSE g.hand_p2
      hand_str == HandStr(my_hand)
      bid_str == BidStr(g.current_bid)
      count_str == to_string(Len(g.history))
  IN hand_str \o <<"|">> \o bid_str \o <<"|">> \o count_str

(***************************************************************************)
(* f32 arithmetic in units of 1 / SCALE                                    *)
(***************************************************************************)
\* the f32 value 1.0
ONE == SCALE

\* a * b, rounded to the nearest unit
Mul(a, b) == (a * b + (SCALE \div 2)) \div SCALE

\* a / b for b > 0, rounded to the nearest unit
Div(a, b) == (a * SCALE + (b \div 2)) \div b

\* n as f32
AsF32(n) == n * ONE

Max(a, b) == IF a >= b THEN a ELSE b

\* iter().sum() and the += accumulations over a vector
RECURSIVE SeqSum(_)
SeqSum(v) == IF v = << >> THEN 0 ELSE Head(v) + SeqSum(Tail(v))

(***************************************************************************)
(* cfr.rs: the regret-matching node and the table of nodes                 *)
(***************************************************************************)
\* HashMap::new()
EmptyTable == << >>

\* CFRNode::new
CFRNode_new(num_actions) ==
  [regret_sum |-> [i \in 1..num_actions |-> 0],
   strategy_sum |-> [i \in 1..num_actions |-> 0],
   num_actions |-> num_actions]

\* nodes.entry(key).or_insert_with(|| CFRNode::new(num_actions))
Entry(tbl, key, num_actions) ==
  IF key \in DOMAIN tbl THEN tbl ELSE (key :> CFRNode_new(num_actions)) @@ tbl

\* variant: the positive regrets are not divided by their sum
get_strategy_Unnormalised(node, realization_weight) ==
  LET positive == [i \in 1..node.num_actions |->
                     IF node.regret_sum[i] > 0 THEN node.regret_sum[i] ELSE 0]
      normalizing_sum == SeqSum(positive)
      strategy == [i \in 1..node.num_actions |->
                     IF normalizing_sum > 0
                     THEN positive[i]
                     ELSE Div(ONE, AsF32(node.num_actions))]
  IN [strategy |-> strategy,
      node |-> [node EXCEPT !.strategy_sum =
                  [i \in 1..node.num_actions |->
                     node.strategy_sum[i] + Mul(realization_weight, strategy[i])]]]

\* variant: the loop adds realization_weight * strategy[i] a second time
get_strategy_AddsTwice(node, realization_weight) ==
  LET positive == [i \in 1..node.num_actions |->
                     IF node.regret_sum[i] > 0 THEN node.regret_sum[i] ELSE 0]
      normalizing_sum == SeqSum(positive)
      strategy == [i \in 1..node.num_actions |->
                     IF normalizing_sum > 0
                     THEN Div(positive[i], normalizing_sum)
                     ELSE Div(ONE, AsF32(node.num_actions))]
  IN [strategy |-> strategy,
      node |-> [node EXCEPT !.strategy_sum =
                  [i \in 1..node.num_actions |->
                     node.strategy_sum[i] + 2 * Mul(realization_weight, strategy[i])]]]

\* CFRNode::get_strategy: the returned vector and the node as the call leaves it
get_strategy(node, realization_weight) ==
  LET positive == [i \in 1..node.num_actions |->
                     IF node.regret_sum[i] > 0 THEN node.regret_sum[i] ELSE 0]
      normalizing_sum == SeqSum(positive)
      strategy == [i \in 1..node.num_actions |->
                     IF normalizing_sum > 0
                     THEN Div(positive[i], normalizing_sum)
                     ELSE Div(ONE, AsF32(node.num_actions))]
  IN [strategy |-> strategy,
      node |-> [node EXCEPT !.strategy_sum =
                  [i \in 1..node.num_actions |->
                     node.strategy_sum[i] + Mul(realization_weight, strategy[i])]]]

\* CFRNode::get_average_strategy
get_average_strategy(node) ==
  LET normalizing_sum == SeqSum(node.strategy_sum)
  IN [i \in 1..node.num_actions |->
        IF normalizing_sum > 0
        THEN Div(node.strategy_sum[i], normalizing_sum)
        ELSE Div(ONE, AsF32(node.num_actions))]

\* variant: the cumulative regret is not floored at 0
UpdateRegrets_NoFloor(node_ref, util, node_util, opp_weight, num_actions) ==
  [node_ref EXCEPT !.regret_sum =
     [i \in DOMAIN node_ref.regret_sum |->
        IF i <= num_actions
        THEN node_ref.regret_sum[i] + Mul(opp_weight, util[i] - node_util)
        ELSE node_ref.regret_sum[i]]]

\* the regret update at the end of CFRTrainer::cfr
UpdateRegrets(node_ref, util, node_util, opp_weight, num_actions) ==
  [node_ref EXCEPT !.regret_sum =
     [i \in DOMAIN node_ref.regret_sum |->
        IF i <= num_actions
        THEN Max(node_ref.regret_sum[i] + Mul(opp_weight, util[i] - node_util), 0)
        ELSE node_ref.regret_sum[i]]]

\* CFRTrainer::cfr: the returned node utility and the table as the call leaves it
RECURSIVE cfr(_, _, _, _)
RECURSIVE ActionLoop(_, _, _, _, _, _, _)

\* variant: the loop takes the actions last to first
ActionLoop_Reversed(g, p0_weight, p1_weight, strategy, valid_actions, n, tbl) ==
  IF n = 0
  THEN [util |-> [i \in 1..Len(valid_actions) |-> 0], node_util |-> 0, nodes |-> tbl]
  ELSE LET before == ActionLoop(g, p0_weight, p1_weight, strategy, valid_actions, n - 1, tbl)
           k == Len(valid_actions) - n + 1
           applied == apply_action(g, valid_actions[k])
           next_game == applied.state
           sub == IF g.current_player = 0
                  THEN cfr(next_game, Mul(p0_weight, strategy[k]), p1_weight, before.nodes)
                  ELSE cfr(next_game, p0_weight, Mul(p1_weight, strategy[k]), before.nodes)
           u == IF applied.terminal THEN get_payoff(next_game) * ONE ELSE 0 - sub.value
       IN [util |-> [before.util EXCEPT ![k] = u],
           node_util |-> before.node_util + Mul(strategy[k], u),
           nodes |-> IF applied.terminal THEN before.nodes ELSE sub.nodes]

\* the loop over valid_actions after its first n rounds: util, node_util and
\* the table, which was tbl when the loop started
ActionLoop(g, p0_weight, p1_weight, strategy, valid_actions, n, tbl) ==
  IF n = 0
  THEN [util |-> [i \in 1..Len(valid_actions) |-> 0], node_util |-> 0, nodes |-> tbl]
  ELSE LET before == ActionLoop(g, p0_weight, p1_weight, strategy, valid_actions, n - 1, tbl)
           applied == apply_action(g, valid_actions[n])
           next_game == applied.state
           sub == IF g.current_player = 0
                  THEN cfr(next_game, Mul(p0_weight, strategy[n]), p1_weight, before.nodes)
                  ELSE cfr(next_game, p0_weight, Mul(p1_weight, strategy[n]), before.nodes)
           u == IF applied.terminal THEN get_payoff(next_game) * ONE ELSE 0 - sub.value
       IN [util |-> [before.util EXCEPT ![n] = u],
           node_util |-> before.node_util + Mul(strategy[n], u),
           nodes |-> IF applied.terminal THEN before.nodes ELSE sub.nodes]

cfr(g, p0_weight, p1_weight, tbl) ==
  LET player == g.current_player
      valid_actions == get_valid_actions(g)
  IN IF valid_actions = << >>
     THEN [value |-> 0, nodes |-> tbl]
     ELSE LET info_set == get_information_set(g)
              tbl1 == Entry(tbl, info_set, Len(valid_actions))
              got == get_strategy(tbl1[info_set],
                                  IF player = 0 THEN p0_weight ELSE p1_weight)
              num_actions == Len(valid_actions)
              done == ActionLoop(g, p0_weight, p1_weight, got.strategy, valid_actions,
                                 num_actions, [tbl1 EXCEPT ![info_set] = got.node])
              node_ref == done.nodes[info_set]
          IN [value |-> done.node_util,
              nodes |-> [done.nodes EXCEPT ![info_set] =
                           UpdateRegrets(node_ref, done.util, done.node_util,
                                         IF player = 0 THEN p1_weight ELSE p0_weight,
                                         num_actions)]]

(***************************************************************************)
(* main.rs: merge_nodes                                                    *)
(***************************************************************************)
\* variant: a key missing from map1 is inserted as a copy of node2 and node2
\* is then added to it
MergeEntry_DoubleInsert(map1, key, node2) ==
  LET m == IF key \in DOMAIN map1 THEN map1 ELSE (key :> node2) @@ map1
      node1 == m[key]
  IN [m EXCEPT ![key] =
        [node1 EXCEPT
           !.regret_sum = [i \in DOMAIN node1.regret_sum |->
                             node1.regret_sum[i] + node2.regret_sum[i]],
           !.strategy_sum = [i \in DOMAIN node1.strategy_sum |->
                               node1.strategy_sum[i] + node2.strategy_sum[i]]]]

\* variant: only regret_sum is added, strategy_sum is left as it was
MergeEntry_RegretOnly(map1, key, node2) ==
  LET m == Entry(map1, key, node2.num_actions)
      node1 == m[key]
  IN [m EXCEPT ![key] =
        [node1 EXCEPT
           !.regret_sum = [i \in DOMAIN node1.regret_sum |->
                             node1.regret_sum[i] + node2.regret_sum[i]]]]

\* variant: a key that map1 holds keeps the node of map1
MergeEntry_KeepFirst(map1, key, node2) ==
  IF key \in DOMAIN map1 THEN map1 ELSE (key :> node2) @@ map1

\* the body of the loop of merge_nodes for one (key, node2) of map2
MergeEntry(map1, key, node2) ==
  LET m == Entry(map1, key, node2.num_actions)
      node1 == m[key]
  IN [m EXCEPT ![key] =
        [node1 EXCEPT
           !.regret_sum = [i \in DOMAIN node1.regret_sum |->
                             IF i <= node1.num_actions
                             THEN node1.regret_sum[i] + node2.regret_sum[i]
                             ELSE node1.regret_sum[i]],
           !.strategy_sum = [i \in DOMAIN node1.strategy_sum |->
                               IF i <= node1.num_actions
                               THEN node1.strategy_sum[i] + node2.strategy_sum[i]
                               ELSE node1.strategy_sum[i]]]]

\* merge_nodes: the loop visits every key of map2 once, and a round reads and
\* writes the node of its own key only, so map1 ends with the node MergeEntry
\* leaves under every key of map2 and with its other nodes as they were
merge_nodes(map1, map2) ==
  [key \in DOMAIN map1 \cup DOMAIN map2 |->
     IF key \in DOMAIN map2
     THEN MergeEntry(map1, key, map2[key])[key]
     ELSE map1[key]]

(***************************************************************************)
(* main.rs: the parsing of a key in save_strategy                          *)
(***************************************************************************)
\* str::split(delim).collect()
RECURSIVE SplitLoop(_, _, _, _)
SplitLoop(s, delim, cur, acc) ==
  IF s = << >> THEN Append(acc, cur)
  ELSE IF Head(s) = delim
       THEN SplitLoop(Tail(s), delim, << >>, Append(acc, cur))
       ELSE SplitLoop(Tail(s), delim, Append(cur, Head(s)), acc)

split(s, delim) == SplitLoop(s, delim, << >>, << >>)

IsDigit(c) == \E d \in 0..9 : DigitChar(d) = c

DigitValue(c) == CHOOSE d \in 0..9 : DigitChar(d) = c

RECURSIVE ParseLoop(_, _)
ParseLoop(s, acc) ==
  IF s = << >> THEN acc
  ELSE ParseLoop(Tail(s), acc * 10 + DigitValue(Head(s)))

\* str::parse::<u8>: the number, or ParseErr for what parse rejects
ParseErr == -1

parse_u8(s) ==
  IF s = << >> \/ Len(s) > 3 \/ \E i \in DOMAIN s : ~IsDigit(s[i]) THEN ParseErr
  ELSE IF ParseLoop(s, 0) > 255 THEN ParseErr ELSE ParseLoop(s, 0)

\* save_strategy: the action list it derives again from the key info_set of
\* a node, for the dice counts it is given
ReconstructActions(info_set, n_dice_p1, n_dice_p2) ==
  LET key_parts == split(info_set, "|")
      bid_str == key_parts[2]
      dummy_game == CHOOSE g \in NewGames(n_dice_p1, n_dice_p2) : TRUE
      b_parts == split(bid_str, "-")
      q == parse_u8(b_parts[1])
      f == parse_u8(b_parts[2])
  IN IF bid_str # <<"N", "o", "n", "e">>
     THEN get_valid_actions([dummy_game EXCEPT !.current_bid = Some(q, f)])
     ELSE get_valid_actions([dummy_game EXCEPT !.current_bid = None])

(***************************************************************************)
(* SpecGame: one play of the game, every action taken from                 *)
(* get_valid_actions as the loop of CFRTrainer::cfr does.                  *)
(***************************************************************************)
\* the dice counts played in SpecGame
GameDice == { <<1, 1>>, <<2, 0>>, <<1, 0>>, <<0, 1>> }

NoAction == [kind |-> "NoAction", q |-> 0, f |-> 0]

\* the return register of cfr: empty, or the one value <<v>> just returned
NoValue == << >>

\* no activation of cfr: the variables of the step-by-step solver at rest

CfrIdle ==
  /\ stack = << >>
  /\ ret = NoValue
  /\ dealt = << >>
  /\ visits = << >>

TrainIdle ==
  /\ p1_dice = 0
  /\ p2_dice = 0
  /\ iterations = 0
  /\ iters_per_thread = 0
  /\ nodes = << >>
  /\ iter = << >>
  /\ parts = {}
  /\ CfrIdle

GameInit ==
  /\ \E d \in GameDice : game \in NewGames(d[1], d[2])
  /\ is_terminal = FALSE
  /\ last_action = NoAction
  /\ actor = 0
  /\ TrainIdle

Apply(action) ==
  /\ ~is_terminal
  /\ action \in { get_valid_actions(game)[i] : i \in DOMAIN get_valid_actions(game) }
  /\ LET r == apply_action(game, action) IN
       /\ game' = r.state
       /\ is_terminal' = r.terminal
  /\ last_action' = action
  /\ actor' = game.current_player
  /\ UNCHANGED trainVars
  /\ UNCHANGED cfrVars

ApplyBid ==
  \E i \in DOMAIN get_valid_actions(game) :
    /\ get_valid_actions(game)[i] # Challenge
    /\ Apply(get_valid_actions(game)[i])

ApplyChallenge == Apply(Challenge)

GameNext == ApplyBid \/ ApplyChallenge

SpecGame == GameInit /\ [][GameNext]_vars

\* the play goes on while an action can be applied: the loop of cfr takes
\* every action of every state it reaches
SpecGameFair == SpecGame /\ WF_vars(GameNext)

(***************************************************************************)
(* SpecTrain: main's parallel map-reduce.  Every worker runs               *)
(* CFRTrainer::train on a table of its own; the returned tables are        *)
(* combined by merge_nodes in any order, identity tables included.         *)
(***************************************************************************)
\* the dice counts trained in SpecTrain
TrainDice == { <<1, 0>>, <<0, 1>> }

Workers == 1..NumThreads

GameIdle ==
  /\ game = NewGame(0, 0, << >>, << >>)
  /\ is_terminal = FALSE
  /\ last_action = NoAction
  /\ actor = 0

\* variant: the division rounds up
ItersPerThread_RoundUp(its, num_threads) == (its + num_threads - 1) \div num_threads

\* iterations / num_threads on usize
ItersPerThread(its, num_threads) == its \div num_threads

\* main up to the start of the parallel iterator
TrainInit ==
  /\ \E d \in TrainDice : p1_dice = d[1] /\ p2_dice = d[2]
  /\ iterations \in 0..MaxIterations
  /\ iters_per_thread = ItersPerThread(iterations, NumThreads)
  /\ nodes = [w \in Workers |-> EmptyTable]
  /\ iter = [w \in Workers |-> 0]
  /\ parts = {}
  /\ GameIdle
  /\ CfrIdle

\* the workers whose train call has returned
Returned == UNION { p.workers : p \in parts }

\* the sequences of n deals GameState::new can produce for d1 and d2 dice
RECURSIVE DealSeqs(_, _, _)
DealSeqs(d1, d2, n) ==
  IF n = 0 THEN { << >> }
  ELSE { <<g>> \o rest : g \in NewGames(d1, d2), rest \in DealSeqs(d1, d2, n - 1) }

\* the loop of CFRTrainer::train over the games it deals
RECURSIVE TrainLoop(_, _)
TrainLoop(deals, tbl) ==
  IF deals = << >> THEN tbl
  ELSE TrainLoop(Tail(deals), cfr(Head(deals), ONE, ONE, tbl).nodes)

\* CFRTrainer::train with the games it deals: the table of a fresh trainer
\* after one cfr call per deal
train(deals) == TrainLoop(deals, EmptyTable)

\* the tables trainer.train(p1_dice, p2_dice, iters_per_thread) can leave in
\* trainer.nodes, for the dice counts d and k iterations
Trained ==
  [d \in TrainDice |->
     [k \in 0..(MaxIterations \div NumThreads) |->
        { train(deals) : deals \in DealSeqs(d[1], d[2], k) }]]

\* worker w runs the map closure: train on a table of its own, returned to
\* the reduction
Train(w) ==
  /\ w \notin Returned
  /\ \E trained \in Trained[<<p1_dice, p2_dice>>][iters_per_thread] :
       /\ nodes' = [nodes EXCEPT ![w] = trained]
       /\ parts' = parts \cup { [workers |-> {w}, nodes |-> trained] }
  /\ iter' = [iter EXCEPT ![w] = iters_per_thread]
  /\ UNCHANGED <<p1_dice, p2_dice, iterations, iters_per_thread>>
  /\ UNCHANGED gameVars
  /\ UNCHANGED cfrVars

\* reduce combines two partial results
Reduce(a, b) ==
  /\ a \in parts
  /\ b \in parts
  /\ a # b
  /\ parts' = (parts \ {a, b}) \cup
                { [workers |-> a.workers \cup b.workers,
                   nodes |-> merge_nodes(a.nodes, b.nodes)] }
  /\ UNCHANGED <<p1_dice, p2_dice, iterations, iters_per_thread, nodes, iter>>
  /\ UNCHANGED gameVars
  /\ UNCHANGED cfrVars

\* reduce combines a partial result with the identity HashMap::new(), on
\* either side, any number of times
ReduceIdentity(a, left) ==
  /\ a \in parts
  /\ parts' = (parts \ {a}) \cup
                { [workers |-> a.workers,
                   nodes |-> IF left THEN merge_nodes(EmptyTable, a.nodes)
                                     ELSE merge_nodes(a.nodes, EmptyTable)] }
  /\ UNCHANGED <<p1_dice, p2_dice, iterations, iters_per_thread, nodes, iter>>
  /\ UNCHANGED gameVars
  /\ UNCHANGED cfrVars

TrainNext ==
  \/ \E w \in Workers : Train(w)
  \/ \E a, b \in parts : Reduce(a, b)
  \/ \E a \in parts, left \in BOOLEAN : ReduceIdentity(a, left)

SpecTrain == TrainInit /\ [][TrainNext]_vars

(***************************************************************************)
(* SpecMerge: merge_nodes as reduce applies it to three tables that        *)
(* CFRTrainer::train has returned, in any order, identity tables included. *)
(***************************************************************************)
\* the tables handed to merge_nodes
MergeInputs == 1..3

MergeInit ==
  /\ \E d \in TrainDice : p1_dice = d[1] /\ p2_dice = d[2]
  /\ iters_per_thread \in 0..(MaxIterations \div NumThreads)
  /\ iterations = iters_per_thread * NumThreads
  /\ nodes \in [MergeInputs -> Trained[<<p1_dice, p2_dice>>][iters_per_thread]]
  /\ iter = [w \in MergeInputs |-> iters_per_thread]
  /\ parts = { [workers |-> {w}, nodes |-> nodes[w]] : w \in MergeInputs }
  /\ GameIdle
  /\ CfrIdle

MergeNext ==
  \/ \E a, b \in parts : Reduce(a, b)
  \/ \E a \in parts, left \in BOOLEAN : ReduceIdentity(a, left)

SpecMerge == MergeInit /\ [][MergeNext]_vars

(***************************************************************************)
(* SpecCfr: one worker's CFRTrainer::train call, step by step.  Every      *)
(* activation of CFRTrainer::cfr is a frame of the stack; a step runs the  *)
(* code of the innermost activation up to its next call or return.         *)
(***************************************************************************)
\* the dice counts of the train call: those of SpecTrain, and no dice at all
CfrDice == TrainDice \cup { <<0, 0>> }

\* the worker whose train call is followed
CfrWorker == 1

\* the weight passed to get_strategy: if player == 0 { p0_weight } else { p1_weight }
RealizationWeight(player, p0_weight, p1_weight) ==
  IF player = 0 THEN p0_weight ELSE p1_weight

\* the weights (p0_weight, p1_weight) of the recursive call for an action of
\* probability prob
ChildWeights(player, p0_weight, p1_weight, prob) ==
  IF player = 0
  THEN <<Mul(p0_weight, prob), p1_weight>>
  ELSE <<p0_weight, Mul(p1_weight, prob)>>

\* variant: the regret is weighted by the acting player's own weight
RegretWeight_Own(player, p0_weight, p1_weight) ==
  IF player = 0 THEN p0_weight ELSE p1_weight

\* the weight of weighted_regret: if player == 0 { p1_weight } else { p0_weight }
RegretWeight(player, p0_weight, p1_weight) ==
  IF player = 0 THEN p1_weight ELSE p0_weight

\* the activation of cfr(game, p0_weight, p1_weight, nodes) at its first line
Call(g, p0_weight, p1_weight) ==
  [pc |-> "enter", game |-> g, p0_weight |-> p0_weight, p1_weight |-> p1_weight,
   player |-> g.current_player, valid_actions |-> << >>, info_set |-> << >>,
   strategy |-> << >>, num_actions |-> 0, util |-> << >>, node_util |-> 0, i |-> 1,
   regret_sum_seen |-> << >>, strategy_sum_seen |-> << >>]

Top == stack[Len(stack)]

\* the stack without its innermost activation
Callers == SubSeq(stack, 1, Len(stack) - 1)

\* the stack with its innermost activation replaced by f
SetTop(f) == [stack EXCEPT ![Len(stack)] = f]

\* the table of the trainer
CfrNodes == nodes[CfrWorker]

\* main and CFRTrainer::train up to the loop over the iterations
CfrInit ==
  /\ \E d \in CfrDice : p1_dice = d[1] /\ p2_dice = d[2]
  /\ iterations \in 0..MaxIterations
  /\ iters_per_thread = ItersPerThread(iterations, NumThreads)
  /\ nodes = [w \in {CfrWorker} |-> EmptyTable]
  /\ iter = [w \in {CfrWorker} |-> 0]
  /\ parts = {}
  /\ CfrIdle
  /\ GameIdle

\* for _ in 0..iterations: deal a game and call cfr(game, 1.0, 1.0, &mut nodes)
Deal ==
  /\ stack = << >>
  /\ iter[CfrWorker] < iters_per_thread
  /\ \E g \in NewGames(p1_dice, p2_dice) :
       /\ stack' = <<Call(g, ONE, ONE)>>
       /\ dealt' = Append(dealt, g)
  /\ iter' = [iter EXCEPT ![CfrWorker] = @ + 1]
  /\ ret' = NoValue
  /\ visits' = << >>
  /\ UNCHANGED <<p1_dice, p2_dice, iterations, iters_per_thread, nodes, parts>>
  /\ UNCHANGED gameVars

\* if valid_actions.is_empty() { return 0.0 }
EarlyReturn ==
  /\ stack # << >>
  /\ Top.pc = "enter"
  /\ get_valid_actions(Top.game) = << >>
  /\ stack' = Callers
  /\ ret' = <<0>>
  /\ UNCHANGED <<dealt, visits>>
  /\ UNCHANGED trainVars
  /\ UNCHANGED gameVars

\* the look-up of the node, created on its first visit, and get_strategy
EnterNode ==
  /\ stack # << >>
  /\ Top.pc = "enter"
  /\ get_valid_actions(Top.game) # << >>
  /\ LET valid_actions == get_valid_actions(Top.game)
         info_set == get_information_set(Top.game)
         tbl1 == Entry(CfrNodes, info_set, Len(valid_actions))
         got == get_strategy(tbl1[info_set],
                             RealizationWeight(Top.player, Top.p0_weight, Top.p1_weight))
         num_actions == Len(valid_actions)
     IN /\ nodes' = [nodes EXCEPT ![CfrWorker] = [tbl1 EXCEPT ![info_set] = got.node]]
        /\ stack' = SetTop([Top EXCEPT !.pc = "loop",
                                       !.valid_actions = valid_actions,
                                       !.info_set = info_set,
                                       !.strategy = got.strategy,
                                       !.num_actions = num_actions,
                                       !.util = [k \in 1..num_actions |-> 0],
                                       !.node_util = 0,
                                       !.i = 1,
                                       !.regret_sum_seen = tbl1[info_set].regret_sum,
                                       !.strategy_sum_seen = tbl1[info_set].strategy_sum])
        /\ visits' = Append(visits, info_set)
  /\ UNCHANGED <<ret, dealt>>
  /\ UNCHANGED <<p1_dice, p2_dice, iterations, iters_per_thread, iter, parts>>
  /\ UNCHANGED gameVars

\* a round of the loop whose action ends the game: util[i] = get_payoff()
LoopTerminal ==
  /\ stack # << >>
  /\ Top.pc = "loop"
  /\ Top.i <= Len(Top.valid_actions)
  /\ LET applied == apply_action(Top.game, Top.valid_actions[Top.i])
         u == get_payoff(applied.state) * ONE
     IN /\ applied.terminal
        /\ stack' = SetTop([Top EXCEPT !.util[Top.i] = u,
                                       !.node_util = @ + Mul(Top.strategy[Top.i], u),
                                       !.i = @ + 1])
  /\ UNCHANGED <<ret, dealt, visits>>
  /\ UNCHANGED trainVars
  /\ UNCHANGED gameVars

\* a round of the loop whose action is a bid: the recursive call
LoopRecurse ==
  /\ stack # << >>
  /\ Top.pc = "loop"
  /\ Top.i <= Len(Top.valid_actions)
  /\ LET applied == apply_action(Top.game, Top.valid_actions[Top.i])
         weights == ChildWeights(Top.player, Top.p0_weight, Top.p1_weight,
                                 Top.strategy[Top.i])
     IN /\ ~applied.terminal
        /\ stack' = Append(SetTop([Top EXCEPT !.pc = "call"]),
                           Call(applied.state, weights[1], weights[2]))
  /\ UNCHANGED <<ret, dealt, visits>>
  /\ UNCHANGED trainVars
  /\ UNCHANGED gameVars

\* the recursive call has returned: util[i] = -value, and the end of the round
Resume ==
  /\ stack # << >>
  /\ Top.pc = "call"
  /\ ret # NoValue
  /\ LET u == 0 - ret[1]
     IN stack' = SetTop([Top EXCEPT !.pc = "loop",
                                    !.util[Top.i] = u,
                                    !.node_util = @ + Mul(Top.strategy[Top.i], u),
                                    !.i = @ + 1])
  /\ ret' = NoValue
  /\ UNCHANGED <<dealt, visits>>
  /\ UNCHANGED trainVars
  /\ UNCHANGED gameVars

\* after the loop: nodes.get_mut(&info_set).unwrap(), the regret update and
\* the return of node_util
Update ==
  /\ stack # << >>
  /\ Top.pc = "loop"
  /\ Top.i > Len(Top.valid_actions)
  /\ Top.info_set \in DOMAIN CfrNodes
  /\ LET node_ref == CfrNodes[Top.info_set]
     IN nodes' = [nodes EXCEPT ![CfrWorker] =
                    [CfrNodes EXCEPT ![Top.info_set] =
                       UpdateRegrets(node_ref, Top.util, Top.node_util,
                                     RegretWeight(Top.player, Top.p0_weight, Top.p1_weight),
                                     Top.num_actions)]]
  /\ stack' = Callers
  /\ ret' = <<Top.node_util>>
  /\ UNCHANGED <<dealt, visits>>
  /\ UNCHANGED <<p1_dice, p2_dice, iterations, iters_per_thread, iter, parts>>
  /\ UNCHANGED gameVars

CfrNext ==
  \/ Deal
  \/ EarlyReturn
  \/ EnterNode
  \/ LoopTerminal
  \/ LoopRecurse
  \/ Resume
  \/ Update

SpecCfr == CfrInit /\ [][CfrNext]_vars

(***************************************************************************)
(* Properties of the game model (SpecGame)                                 *)
(***************************************************************************)
TotalDice == game.dice_p1 + game.dice_p2

ValidNow == get_valid_actions(game)

\* C2: every Bid offered by get_valid_actions has quantity <= total_dice and
\* face in 1..6, the list is non-empty whenever total_dice >= 1, and a state
\* with an outstanding bid is offered Challenge.
C2_ValidBidsInRange ==
  /\ \A i \in DOMAIN ValidNow :
        ValidNow[i].kind = "Bid" =>
          /\ ValidNow[i].q <= TotalDice
          /\ ValidNow[i].f \in 1..6
  /\ (TotalDice >= 1 => ValidNow # << >>)
  /\ (game.current_bid # None => \E i \in DOMAIN ValidNow : ValidNow[i] = Challenge)

\* a state reached by two bids that is still offered a raise of the quantity
C2_Witness ==
  /\ Len(game.history) = 2
  /\ game.current_bid # None
  /\ \E i \in DOMAIN ValidNow : ValidNow[i].kind = "Bid" /\ ValidNow[i].q = TotalDice
  /\ \E i \in DOMAIN ValidNow : ValidNow[i] = Challenge

\* (q2, f2) is strictly higher than (q1, f1)
Higher(q2, f2, q1, f1) == q2 > q1 \/ (q2 = q1 /\ f2 > f1)

\* C3: get_valid_actions returns exactly the specified list in the specified
\* order: without a bid the 6 * total_dice bids quantity-major and face-minor;
\* with a bid (q, f) Challenge first, then (q, f+1)..(q, 6), then every bid of
\* a greater quantity quantity-major; no duplicates, nothing that is not
\* strictly higher than the outstanding bid.
C3_ExactOrderedList ==
  IF game.current_bid = None
  THEN /\ Len(ValidNow) = 6 * TotalDice
       /\ \A q \in 1..TotalDice, f \in 1..6 : ValidNow[(q - 1) * 6 + f] = Bid(q, f)
  ELSE LET q == game.current_bid[1]
           f == game.current_bid[2]
       IN /\ Len(ValidNow) = 1 + (6 - f) + 6 * (TotalDice - q)
          /\ ValidNow[1] = Challenge
          /\ \A k \in 1..(6 - f) : ValidNow[1 + k] = Bid(q, f + k)
          /\ \A q2 \in (q + 1)..TotalDice, f2 \in 1..6 :
                ValidNow[1 + (6 - f) + (q2 - q - 1) * 6 + f2] = Bid(q2, f2)
          /\ \A i, j \in DOMAIN ValidNow : i # j => ValidNow[i] # ValidNow[j]
          /\ \A i \in 2..Len(ValidNow) :
                /\ ValidNow[i].kind = "Bid"
                /\ Higher(ValidNow[i].q, ValidNow[i].f, q, f)

\* an outstanding bid with both a face raise and a quantity raise on offer
C3_Witness ==
  /\ game.current_bid = Some(1, 3)
  /\ TotalDice = 2
  /\ Len(ValidNow) = 10

\* number of dice of both hands that show the face
Showing(face) ==
  Cardinality({ i \in DOMAIN game.hand_p1 : game.hand_p1[i] = face })
    + Cardinality({ i \in DOMAIN game.hand_p2 : game.hand_p2[i] = face })

\* C4: in a terminal state the bid (q, f) is defined and get_payoff is -1 if
\* the two hands together show at least q dice of face f and +1 otherwise,
\* never 0; it is the payoff of the challenger, the current_player of the
\* terminal state, who is the player that applied Challenge.
C4_ChallengerPayoff ==
  is_terminal =>
    /\ game.current_bid # None
    /\ get_payoff(game) =
         (IF Showing(game.current_bid[2]) >= game.current_bid[1] THEN -1 ELSE 1)
    /\ get_payoff(game) \in {-1, 1}
    /\ game.current_player = actor

\* a challenge of a bid of two dice that both hands together exactly meet
C4_Witness ==
  /\ is_terminal
  /\ game.current_bid # None
  /\ game.current_bid[1] = 2
  /\ Showing(game.current_bid[2]) = 2
  /\ game.hand_p1 # << >>
  /\ game.hand_p2 # << >>
  /\ get_payoff(game) = -1

\* C8: apply_action(Challenge) returns true and leaves the whole state as it
\* was; apply_action(Bid(q, f)) returns false, sets current_bid to (q, f),
\* appends the action to history, flips current_player between 0 and 1 and
\* leaves hands and dice counts as they were.
C8_ApplyFrame ==
  [][ /\ (last_action' = Challenge => is_terminal' /\ game' = game)
      /\ (last_action'.kind = "Bid" =>
            /\ ~is_terminal'
            /\ game'.current_bid = <<last_action'.q, last_action'.f>>
            /\ game'.history = game.history \o <<last_action'>>
            /\ game'.current_player \in {0, 1}
            /\ game'.current_player # game.current_player
            /\ game'.hand_p1 = game.hand_p1
            /\ game'.hand_p2 = game.hand_p2
            /\ game'.dice_p1 = game.dice_p1
            /\ game'.dice_p2 = game.dice_p2) ]_vars

\* a Challenge applied by player 1 after three bids
C8_Witness ==
  /\ is_terminal
  /\ last_action = Challenge
  /\ Len(game.history) = 3
  /\ actor = 1

\* the hand of the player to act
MyHand(g) == IF g.current_player = 0 THEN g.hand_p1 ELSE g.hand_p2

\* the key of the state is hand, bid and count joined by "|", the bid being
\* "quantity-face" or the sentinel when there is none
KeyFormat(sentinel) ==
  LET key == get_information_set(game)
      fields == split(key, "|")
  IN /\ Len(fields) = 3
     /\ Len(fields[1]) = Len(MyHand(game))
     /\ \A i \in DOMAIN fields[1] : fields[1][i] = DigitChar(MyHand(game)[i])
     /\ IF game.current_bid = None
        THEN fields[2] = sentinel
        ELSE LET b == split(fields[2], "-")
             IN /\ Len(b) = 2
                /\ parse_u8(b[1]) = game.current_bid[1]
                /\ parse_u8(b[2]) = game.current_bid[2]
     /\ parse_u8(fields[3]) = Len(game.history)
     /\ (game.history = << >> =>
           key = fields[1] \o <<"|">> \o sentinel \o <<"|", "0">>)

\* C9 (amended): get_information_set joins with "|" the acting player's hand
\* as a digit string, the bid as "quantity-face" or the literal "None" when
\* there is no bid, and the number of actions taken so far; the key of a
\* fresh state with hand h is h, "None" and 0.
C9_KeyFormat == KeyFormat(<<"N", "o", "n", "e">>)

\* C9 as stated: the sentinel for no bid is the literal "none"
C9_Original == KeyFormat(<<"n", "o", "n", "e">>)

\* a key with a two-dice hand, a bid and a two-digit count
C9_Witness ==
  /\ Len(game.history) >= 10
  /\ game.current_player = 0
  /\ Len(game.hand_p1) = 2
  /\ game.hand_p1[1] # game.hand_p1[2]

\* the i-th bid in quantity-major, face-minor order
NthBid(i) == Bid(1 + ((i - 1) \div 6), 1 + ((i - 1) % 6))

\* the reachable state with the same acting player, acting hand, bid and
\* history length as g in which the opponent holds only ones and the earlier
\* bids were the lowest bids there are
Canon(g) ==
  LET L == Len(g.history)
      h == [i \in 1..L |-> IF i = L THEN g.history[L] ELSE NthBid(i)]
  IN IF g.current_player = 0
     THEN [g EXCEPT !.history = h, !.hand_p2 = [i \in 1..g.dice_p2 |-> 1]]
     ELSE [g EXCEPT !.history = h, !.hand_p1 = [i \in 1..g.dice_p1 |-> 1]]

\* C10: two reachable states with the same acting player, the same acting
\* hand, the same bid and the same history length have the same key, whatever
\* the opponent's hand and the earlier bids: every reachable state has the key
\* of the canonical state of its class, so the node one of them creates is the
\* node the other one finds.
C10_KeyHidesOpponent ==
  LET c == Canon(game)
      n == Len(get_valid_actions(game))
      tbl == Entry(EmptyTable, get_information_set(game), n)
  IN /\ c.current_player = game.current_player
     /\ MyHand(c) = MyHand(game)
     /\ c.current_bid = game.current_bid
     /\ Len(c.history) = Len(game.history)
     /\ get_information_set(c) = get_information_set(game)
     /\ Entry(tbl, get_information_set(c), Len(get_valid_actions(c))) = tbl

\* a state that differs from the canonical state of its class in the
\* opponent's hand and in the earlier bids
C10_Witness ==
  /\ Len(game.history) >= 3
  /\ game.current_player = 1
  /\ game.hand_p1 # Canon(game).hand_p1
  /\ game.history[1] # Canon(game).history[1]
  /\ game.history[2] # Canon(game).history[2]

\* number of bids that get_valid_actions offers in state g
BidsOnOffer(g) ==
  Cardinality({ i \in DOMAIN get_valid_actions(g) : get_valid_actions(g)[i].kind = "Bid" })

\* the bids applied and the bids still on offer are together no more than
\* total_dice * 6, and with none on offer Challenge is the only valid action
BidChainBounded ==
  /\ Len(game.history) + BidsOnOffer(game) <= TotalDice * DICE_FACES
  /\ Len(game.history) <= TotalDice * DICE_FACES
  /\ (Len(game.history) = TotalDice * DICE_FACES => ValidNow = <<Challenge>>)
  /\ (BidsOnOffer(game) = 0 => ValidNow = <<Challenge>>)

\* a bid is one more level of the recursion and leaves fewer bids on offer
BidLeavesFewer ==
  game' # game =>
    /\ Len(game'.history) = Len(game.history) + 1
    /\ BidsOnOffer(game') < BidsOnOffer(game)

\* C14: along every path of the recursion from a fresh state at most
\* total_dice * 6 bids are applied, each bid leaves fewer bids on offer, after
\* total_dice * 6 bids Challenge is the only valid action, and every play
\* that goes on while an action is valid ends with a Challenge; a nested cfr
\* call is made per bid applied, so the calls nested below the root are at
\* most total_dice * 6.
C14_PlayTerminates ==
  /\ []BidChainBounded
  /\ [][BidLeavesFewer]_vars
  /\ <>is_terminal

\* the longest chain of bids with two dice, ended by the Challenge
C14_Witness ==
  /\ is_terminal
  /\ TotalDice = 2
  /\ Len(game.history) = 2 * DICE_FACES

(***************************************************************************)
(* Properties of training and merging (SpecTrain)                          *)
(***************************************************************************)
\* every table there is: the workers' own and the partial results
Tables == { nodes[w] : w \in DOMAIN nodes } \cup { p.nodes : p \in parts }

\* the tables the workers have returned
ReturnedTables == { nodes[w] : w \in Returned }

\* C1: every entry of cumulative regret of every node is >= 0, in every
\* worker's table after training and in every table merge_nodes has produced.
C1_RegretNonNegative ==
  \A tbl \in Tables : \A key \in DOMAIN tbl :
    \A i \in DOMAIN tbl[key].regret_sum : tbl[key].regret_sum[i] >= 0

\* the merge of all workers' trained tables, with a node that holds both a
\* floored and a positive regret
C1_Witness ==
  \E p \in parts :
    /\ p.workers = Workers
    /\ iters_per_thread >= 1
    /\ \E key \in DOMAIN p.nodes :
         \E i, j \in DOMAIN p.nodes[key].regret_sum :
           p.nodes[key].regret_sum[i] = 0 /\ p.nodes[key].regret_sum[j] > 0

Abs(x) == IF x >= 0 THEN x ELSE 0 - x

\* v is a distribution over n actions: n entries, none negative, summing to
\* 1.0 up to one rounding step per entry
IsDistribution(v, n) ==
  /\ DOMAIN v = 1..n
  /\ \A i \in 1..n : v[i] >= 0
  /\ Abs(SeqSum(v) - ONE) <= n

\* every entry of v is the representable value nearest to 1 / n
IsUniform(v, n) == \A i \in 1..n : 2 * Abs(v[i] * n - ONE) <= n

\* get_strategy and get_average_strategy of node return distributions, uniform
\* ones in the cases of their fallbacks
StrategiesAreDistributions(node) ==
  LET strategy == get_strategy(node, ONE).strategy
      average == get_average_strategy(node)
  IN /\ node.num_actions >= 1
     /\ IsDistribution(strategy, node.num_actions)
     /\ IsDistribution(average, node.num_actions)
     /\ ((\A i \in 1..node.num_actions : node.regret_sum[i] <= 0)
           => IsUniform(strategy, node.num_actions))
     /\ (SeqSum(node.strategy_sum) = 0 => IsUniform(average, node.num_actions))

\* C5: for every node that training and merging produce, and for the node
\* CFRNode::new makes for every action count of the game, get_strategy and
\* get_average_strategy return num_actions non-negative entries that sum to 1
\* (up to rounding); get_strategy is uniform when no regret is positive and
\* get_average_strategy is uniform when strategy_sum sums to zero.
C5_StrategiesAreDistributions ==
  /\ \A tbl \in Tables : \A key \in DOMAIN tbl : StrategiesAreDistributions(tbl[key])
  /\ \A n \in 1..(DICE_FACES * (p1_dice + p2_dice)) :
       StrategiesAreDistributions(CFRNode_new(n))

\* a merged table holding a node of several actions without positive regret
\* and a node whose strategy and average strategy are not uniform
C5_Witness ==
  \E p \in parts :
    /\ Cardinality(p.workers) >= 2
    /\ \E key \in DOMAIN p.nodes :
         /\ p.nodes[key].num_actions >= 2
         /\ \A i \in 1..p.nodes[key].num_actions : p.nodes[key].regret_sum[i] = 0
    /\ \E key \in DOMAIN p.nodes :
         /\ ~IsUniform(get_strategy(p.nodes[key], ONE).strategy, p.nodes[key].num_actions)
         /\ ~IsUniform(get_average_strategy(p.nodes[key]), p.nodes[key].num_actions)

\* C6: merge_nodes is associative and commutative on trained tables: for the
\* tables A, B, C of any three workers, merge(merge(A,B),C), merge(A,merge(B,C))
\* and merge(B,merge(A,C)) are the same table.
C6_MergeAssocComm ==
  \A a, b, c \in Returned :
    (a # b /\ b # c /\ a # c) =>
      LET A == nodes[a]
          B == nodes[b]
          C == nodes[c]
          left == merge_nodes(merge_nodes(A, B), C)
      IN /\ left = merge_nodes(A, merge_nodes(B, C))
         /\ left = merge_nodes(B, merge_nodes(A, C))

\* three returned tables, not all equal, two of them with keys of their own
C6_Witness ==
  \E a, b, c \in Returned :
    /\ a # b /\ b # c /\ a # c
    /\ iters_per_thread >= 1
    /\ nodes[a] # nodes[b]
    /\ DOMAIN nodes[a] \ DOMAIN nodes[b] # {}
    /\ DOMAIN nodes[b] \ DOMAIN nodes[a] # {}
    /\ DOMAIN nodes[a] \cap DOMAIN nodes[b] # {}
    /\ nodes[c] = nodes[a]

\* the vector of a key in a table, n zeros when the table lacks the key
RegretOr0(tbl, key, n) ==
  IF key \in DOMAIN tbl THEN tbl[key].regret_sum ELSE [i \in 1..n |-> 0]

StrategySumOr0(tbl, key, n) ==
  IF key \in DOMAIN tbl THEN tbl[key].strategy_sum ELSE [i \in 1..n |-> 0]

\* m is the union of a and b with the vectors added entry by entry
IsSumOf(m, a, b) ==
  /\ DOMAIN m = DOMAIN a \cup DOMAIN b
  /\ \A key \in DOMAIN m :
       LET n == IF key \in DOMAIN a THEN a[key].num_actions ELSE b[key].num_actions
       IN /\ m[key].num_actions = n
          /\ m[key].regret_sum =
               [i \in 1..n |-> RegretOr0(a, key, n)[i] + RegretOr0(b, key, n)[i]]
          /\ m[key].strategy_sum =
               [i \in 1..n |-> StrategySumOr0(a, key, n)[i] + StrategySumOr0(b, key, n)[i]]

\* C7: merge_nodes(map1, map2) has the union of the two key sets and, for
\* every key, the entry-by-entry sum of the two nodes' regret_sum and
\* strategy_sum, a missing key counting as zeros; merging with the empty
\* table on either side returns the table as it was.
C7_MergeIsSum ==
  /\ \A a, b \in ReturnedTables \cup { p.nodes : p \in parts } :
        IsSumOf(merge_nodes(a, b), a, b)
  /\ \A a \in Tables :
        /\ merge_nodes(a, EmptyTable) = a
        /\ merge_nodes(EmptyTable, a) = a

\* two partial results that share keys and have keys of their own are about
\* to be merged
C7_Witness ==
  /\ \E p1, p2 \in parts :
       /\ DOMAIN p1.nodes \ DOMAIN p2.nodes # {}
       /\ DOMAIN p2.nodes \ DOMAIN p1.nodes # {}
       /\ \E key \in DOMAIN p1.nodes \cap DOMAIN p2.nodes :
            \E i \in 1..p1.nodes[key].num_actions :
              p1.nodes[key].strategy_sum[i] > 0 /\ p2.nodes[key].regret_sum[i] > 0


\* merge_nodes folded from HashMap::new() over the tables of the workers of S
\* in the order of their indices
RECURSIVE FoldInOrder(_)
FoldInOrder(S) ==
  IF S = {} THEN EmptyTable
  ELSE LET w == CHOOSE x \in S : \A y \in S : y <= x
       IN merge_nodes(FoldInOrder(S \ {w}), nodes[w])

\* every partial result is the fold in index order of the tables of the
\* workers it was reduced from, and every returned worker is in one of them
ReduceIsFold ==
  /\ \A p \in parts : p.nodes = FoldInOrder(p.workers)
  /\ \A p, q \in parts : p # q => p.workers \cap q.workers = {}

\* a step changes the table of at most one worker, which is the worker whose
\* train call returns with that step
OwnTableOnly ==
  \A w \in Workers :
    nodes'[w] # nodes[w] =>
      /\ w \notin Returned
      /\ [workers |-> {w}, nodes |-> nodes'[w]] \in parts'
      /\ \A v \in Workers \ {w} : nodes'[v] = nodes[v]

RECURSIVE IterSum(_)
IterSum(S) ==
  IF S = {} THEN 0
  ELSE LET w == CHOOSE x \in S : TRUE IN iter[w] + IterSum(S \ {w})

\* C13: with N workers and K = iterations / N (integer division), a worker
\* that has returned has run exactly K iterations and its table is one that K
\* root recursions from an empty table leave, a worker that has not has run
\* none; when all have returned N * K <= iterations root recursions were run
\* and the iterations mod N left over, fewer than N, were run by nobody; when
\* iterations < N no iteration runs and every table, the final one included,
\* is empty.
C13_IterationsPerWorker ==
  LET N == NumThreads
      K == iterations \div N
  IN /\ iters_per_thread = K
     /\ \A w \in Workers :
          /\ iter[w] = (IF w \in Returned THEN K ELSE 0)
          /\ nodes[w] \in Trained[<<p1_dice, p2_dice>>][iter[w]]
     /\ Returned = Workers =>
          /\ IterSum(Workers) = N * K
          /\ N * K <= iterations
          /\ iterations - N * K = iterations % N
          /\ iterations - N * K < N
     /\ iterations < N =>
          /\ K = 0
          /\ \A w \in Workers : nodes[w] = EmptyTable
          /\ \A p \in parts : p.nodes = EmptyTable

\* a finished run that dropped a remainder: every worker ran one iteration
\* or more and the final table is not empty
C13_Witness ==
  /\ iterations % NumThreads # 0
  /\ iters_per_thread >= 1
  /\ \E p \in parts : p.workers = Workers /\ p.nodes # EmptyTable
  /\ IterSum(Workers) < iterations

(***************************************************************************)
(* Properties of the recursive solver (SpecCfr)                            *)
(***************************************************************************)
\* the keys cfr looks up from state g on, in the order of the look-ups
RECURSIVE Traversal(_)
RECURSIVE TraversalLoop(_, _, _)

\* the look-ups of the first n rounds of the loop over valid_actions
TraversalLoop(g, valid_actions, n) ==
  IF n = 0 THEN << >>
  ELSE LET applied == apply_action(g, valid_actions[n])
       IN TraversalLoop(g, valid_actions, n - 1)
            \o (IF applied.terminal THEN << >> ELSE Traversal(applied.state))

Traversal(g) ==
  LET valid_actions == get_valid_actions(g)
  IN IF valid_actions = << >> THEN << >>
     ELSE <<get_information_set(g)>> \o TraversalLoop(g, valid_actions, Len(valid_actions))

\* the traversal order of every game that can be dealt
TraversalOf ==
  [g \in UNION { NewGames(d[1], d[2]) : d \in CfrDice } |-> Traversal(g)]

\* s is the beginning of t
IsPrefix(s, t) == Len(s) <= Len(t) /\ s = SubSeq(t, 1, Len(s))

\* number of the steps of an activation that can be taken now
StepsEnabled ==
  (IF ENABLED EarlyReturn THEN 1 ELSE 0) + (IF ENABLED EnterNode THEN 1 ELSE 0)
    + (IF ENABLED LoopTerminal THEN 1 ELSE 0) + (IF ENABLED LoopRecurse THEN 1 ELSE 0)
    + (IF ENABLED Resume THEN 1 ELSE 0) + (IF ENABLED Update THEN 1 ELSE 0)

\* C11: with the dealt hands fixed the solver is deterministic.  While an
\* iteration runs exactly one step can be taken and no game is dealt, and the
\* keys looked up so far are the beginning of the one traversal order of the
\* dealt game; between iterations the table is the one table train leaves for
\* the games dealt, the value returned is the one value of cfr, and the keys
\* were looked up in the traversal order.
C11_Deterministic ==
  /\ stack # << >> =>
        /\ StepsEnabled = 1
        /\ ~ENABLED Deal
        /\ IsPrefix(visits, TraversalOf[dealt[Len(dealt)]])
  /\ (stack = << >> /\ dealt # << >>) =>
        /\ StepsEnabled = 0
        /\ CfrNodes = train(dealt)
        /\ ret = <<cfr(dealt[Len(dealt)], ONE, ONE,
                       train(SubSeq(dealt, 1, Len(dealt) - 1))).value>>
        /\ visits = TraversalOf[dealt[Len(dealt)]]

\* the end of a second iteration that looked up a key several times and left
\* a node with a positive regret
C11_Witness ==
  /\ stack = << >>
  /\ Len(dealt) = 2
  /\ dealt[1] # dealt[2]
  /\ \E j, k \in DOMAIN visits : j # k /\ visits[j] = visits[k]
  /\ \E key \in DOMAIN CfrNodes :
       \E i \in 1..CfrNodes[key].num_actions : CfrNodes[key].regret_sum[i] > 0


\* the activation is at a round of its loop that ends the game: get_payoff
\* is the next call
AtPayoff(f) ==
  /\ f.pc = "loop"
  /\ f.i <= Len(f.valid_actions)
  /\ apply_action(f.game, f.valid_actions[f.i]).terminal

\* C15: in a train call with total_dice >= 1 no activation of cfr finds
\* get_valid_actions empty, so return 0.0 is never taken; Challenge is on
\* offer exactly when a bid is outstanding; and get_payoff is called only on
\* a state with a bid, so its value is -1.0 or 1.0 and never the 0.0 of the
\* branch for no bid.
C15_FallbacksUnreachable ==
  p1_dice + p2_dice >= 1 =>
    /\ ~(stack # << >> /\ Top.pc = "enter" /\ get_valid_actions(Top.game) = << >>)
    /\ \A k \in DOMAIN stack :
         LET f == stack[k]
             offered == get_valid_actions(f.game)
         IN /\ offered # << >>
            /\ (\E i \in DOMAIN offered : offered[i] = Challenge)
                  <=> f.game.current_bid # None
            /\ AtPayoff(f) =>
                  /\ apply_action(f.game, f.valid_actions[f.i]).state.current_bid # None
                  /\ get_payoff(apply_action(f.game, f.valid_actions[f.i]).state) \in {-1, 1}

\* a nested activation about to call get_payoff for a Challenge that wins
C15_Witness ==
  /\ p1_dice + p2_dice >= 1
  /\ Len(stack) >= 3
  /\ AtPayoff(Top)
  /\ Top.valid_actions[Top.i] = Challenge
  /\ get_payoff(Top.game) = 1


\* the reach weight of the player who acts in activation f, and of the other
OwnWeight(f) == IF f.game.current_player = 0 THEN f.p0_weight ELSE f.p1_weight
OtherWeight(f) == IF f.game.current_player = 0 THEN f.p1_weight ELSE f.p0_weight

\* the activation has looked up its node and not yet returned
Visiting(f) == f.pc \in {"loop", "call"}

\* get_strategy was passed the acting player's weight, and every nested call
\* was passed that weight times the probability of its action and the other
\* player's weight as it was
WeightsPassed ==
  /\ \A k \in DOMAIN stack :
       LET f == stack[k] IN
         Visiting(f) =>
           /\ f.player = f.game.current_player
           /\ \A i \in 1..f.num_actions :
                CfrNodes[f.info_set].strategy_sum[i] =
                  f.strategy_sum_seen[i] + Mul(OwnWeight(f), f.strategy[i])
  /\ \A k \in 1..(Len(stack) - 1) :
       LET f == stack[k]
           c == stack[k + 1]
       IN /\ f.pc = "call"
          /\ c.game = apply_action(f.game, f.valid_actions[f.i]).state
          /\ IF f.game.current_player = 0
             THEN /\ c.p0_weight = Mul(f.p0_weight, f.strategy[f.i])
                  /\ c.p1_weight = f.p1_weight
             ELSE /\ c.p1_weight = Mul(f.p1_weight, f.strategy[f.i])
                  /\ c.p0_weight = f.p0_weight

\* the step is the regret update of the innermost activation
Updating == stack # << >> /\ Top.pc = "loop" /\ Top.i > Len(Top.valid_actions)

\* the regret update adds the other player's weight times
\* util[i] - node_util, floored at 0
RegretWeightedByOther ==
  Updating =>
    \A i \in 1..Top.num_actions :
      nodes'[CfrWorker][Top.info_set].regret_sum[i] =
        Max(CfrNodes[Top.info_set].regret_sum[i]
              + Mul(OtherWeight(Top), Top.util[i] - Top.node_util), 0)

\* C16: where player p acts, get_strategy is passed the incoming reach
\* weight of p, the recursive call for action i is passed the weight of p
\* times strategy[i] and the weight of the other player unchanged, and the
\* regret update adds (weight of the other player) * (util[i] - node_util)
\* to regret_sum[i], the weight of p taking no part in it.
C16_CounterfactualWeights == []WeightsPassed /\ [][RegretWeightedByOther]_vars

\* a regret update at a node the two players reach with different weights,
\* neither of them 1.0, that changes a regret
C16_Witness ==
  /\ Updating
  /\ Len(stack) >= 3
  /\ OwnWeight(Top) # OtherWeight(Top)
  /\ OwnWeight(Top) \notin {0, ONE}
  /\ OtherWeight(Top) \notin {0, ONE}
  /\ \E i \in 1..Top.num_actions :
       /\ Mul(OtherWeight(Top), Top.util[i] - Top.node_util) > 0
       /\ Mul(OtherWeight(Top), Top.util[i] - Top.node_util)
            # Mul(OwnWeight(Top), Top.util[i] - Top.node_util)


\* the strategy of regret matching for the regrets r of n actions
RegretMatching(r, n) ==
  LET positive == [i \in 1..n |-> Max(r[i], 0)]
      total == SeqSum(positive)
  IN [i \in 1..n |-> IF total > 0 THEN Div(positive[i], total) ELSE Div(ONE, AsF32(n))]

\* node_util after the first n rounds of the loop of activation f
RECURSIVE NodeUtil(_, _)
NodeUtil(f, n) ==
  IF n = 0 THEN 0 ELSE NodeUtil(f, n - 1) + Mul(f.strategy[n], f.util[n])

\* in every activation between its get_strategy call and its regret update:
\* strategy_sum holds the one accumulation of this visit, regret_sum is as
\* the visit found it, the strategy is the one of those regrets, and the
\* nested call and node_util use that strategy
AccumulatedOnce ==
  \A k \in DOMAIN stack :
    LET f == stack[k]
        node == CfrNodes[f.info_set]
    IN Visiting(f) =>
         /\ f.num_actions = Len(f.valid_actions)
         /\ f.num_actions >= 1
         /\ f.strategy = RegretMatching(f.regret_sum_seen, f.num_actions)
         /\ node.regret_sum = f.regret_sum_seen
         /\ node.strategy_sum =
              [i \in 1..f.num_actions |->
                 f.strategy_sum_seen[i] + Mul(OwnWeight(f), f.strategy[i])]
         /\ f.node_util = NodeUtil(f, f.i - 1)
         /\ ((f.pc = "call" /\ k < Len(stack)) =>
               LET c == stack[k + 1] IN
                 RealizationWeight(f.player, c.p0_weight, c.p1_weight)
                   = Mul(OwnWeight(f), f.strategy[f.i]))

\* strategy_sum changes with the get_strategy call of a visit and with no
\* other step, the regret update included; regret_sum changes with the
\* regret update only
AccumulatedAtEntry ==
  \A key \in DOMAIN CfrNodes :
    /\ nodes'[CfrWorker][key].strategy_sum # CfrNodes[key].strategy_sum =>
          /\ stack # << >> /\ Top.pc = "enter"
          /\ key = get_information_set(Top.game)
          /\ nodes'[CfrWorker][key].regret_sum = CfrNodes[key].regret_sum
    /\ nodes'[CfrWorker][key].regret_sum # CfrNodes[key].regret_sum =>
          /\ Updating
          /\ key = Top.info_set

\* C17: in every visit with actions realization_weight * strategy[i] is
\* added to strategy_sum[i] exactly once, by the get_strategy call at the
\* start of the visit and before its regret update, with the strategy of the
\* regrets the visit found; that same strategy gives the weights of the
\* nested calls and node_util.
C17_AccumulatedOncePerVisit == []AccumulatedOnce /\ [][AccumulatedAtEntry]_vars

\* a later visit of a node: it has a weight accumulated before, a strategy
\* that is not uniform, and a nested call under way
C17_Witness ==
  /\ stack # << >>
  /\ \E k \in DOMAIN stack :
       /\ stack[k].pc = "call"
       /\ \E i \in 1..stack[k].num_actions : stack[k].strategy_sum_seen[i] > 0
       /\ \E i, j \in 1..stack[k].num_actions : stack[k].strategy[i] # stack[k].strategy[j]
       /\ OwnWeight(stack[k]) \notin {0, ONE}


\* the vectors of every node have num_actions entries, as many as the
\* actions save_strategy derives from the key and as its average strategy;
\* every activation that has looked up its node holds the action list of the
\* key, and an activation about to look up a node that exists has as many
\* valid actions as the node has entries
IndicesAlign ==
  /\ \A key \in DOMAIN CfrNodes :
       LET node == CfrNodes[key]
           actions == ReconstructActions(key, p1_dice, p2_dice)
       IN /\ Len(node.regret_sum) = node.num_actions
          /\ Len(node.strategy_sum) = node.num_actions
          /\ Len(actions) = node.num_actions
          /\ Len(get_average_strategy(node)) = Len(actions)
  /\ \A k \in DOMAIN stack :
       LET f == stack[k] IN
         /\ Visiting(f) =>
               /\ f.info_set \in DOMAIN CfrNodes
               /\ Len(f.valid_actions) = CfrNodes[f.info_set].num_actions
               /\ Len(f.strategy) = Len(f.valid_actions)
               /\ f.valid_actions = ReconstructActions(f.info_set, p1_dice, p2_dice)
         /\ (f.pc = "enter" /\ get_information_set(f.game) \in DOMAIN CfrNodes) =>
               Len(get_valid_actions(f.game))
                 = CfrNodes[get_information_set(f.game)].num_actions

\* a node is never removed and never changes its length
NodesKeepLength ==
  \A key \in DOMAIN CfrNodes :
    /\ key \in DOMAIN nodes'[CfrWorker]
    /\ nodes'[CfrWorker][key].num_actions = CfrNodes[key].num_actions
    /\ Len(nodes'[CfrWorker][key].regret_sum) = Len(CfrNodes[key].regret_sum)
    /\ Len(nodes'[CfrWorker][key].strategy_sum) = Len(CfrNodes[key].strategy_sum)

\* a node that enters the table is that of the activation on top, with
\* one entry for each action valid at that visit
CreatedAtFirstVisit ==
  \A key \in DOMAIN nodes'[CfrWorker] \ DOMAIN CfrNodes :
    /\ stack # << >>
    /\ Top.pc = "enter"
    /\ key = get_information_set(Top.game)
    /\ nodes'[CfrWorker][key].num_actions = Len(get_valid_actions(Top.game))
    /\ Len(nodes'[CfrWorker][key].regret_sum) = Len(get_valid_actions(Top.game))
    /\ Len(nodes'[CfrWorker][key].strategy_sum) = Len(get_valid_actions(Top.game))
    /\ \A i \in 1..Len(get_valid_actions(Top.game)) :
         nodes'[CfrWorker][key].regret_sum[i] = 0

\* C18: a node is created with vectors as long as the action list of its
\* first visit, is never removed and never changes length; for the dice
\* counts of the run the action list is a function of the key, the one
\* save_strategy derives again from the bid in the key; so at every later
\* visit valid_actions.len() is num_actions, a key has the same num_actions
\* in every table of the run, and the average strategy of a node is as long
\* as the action list derived from its key.
C18_IndicesAlign ==
  []IndicesAlign /\ [][NodesKeepLength /\ CreatedAtFirstVisit]_vars

\* a later visit of a node that Challenge and some but not all bids were on
\* offer for, about to look it up again
C18_Witness ==
  /\ stack # << >>
  /\ Top.pc = "enter"
  /\ get_information_set(Top.game) \in DOMAIN CfrNodes
  /\ CfrNodes[get_information_set(Top.game)].num_actions = 4
  /\ Len(dealt) = 2


\* the activations of the running calls, outermost first, are of states with
\* strictly longer histories and so of different keys; an activation between
\* its get_strategy call and its regret update finds its node in the table,
\* holding the regret_sum its strategy was derived from
NoReentry ==
  /\ \A j, k \in DOMAIN stack :
       j < k =>
         /\ Len(stack[j].game.history) < Len(stack[k].game.history)
         /\ get_information_set(stack[j].game) # get_information_set(stack[k].game)
  /\ \A k \in DOMAIN stack :
       LET f == stack[k] IN
         Visiting(f) =>
           /\ f.info_set = get_information_set(f.game)
           /\ f.info_set \in DOMAIN CfrNodes
           /\ CfrNodes[f.info_set].regret_sum = f.regret_sum_seen
           /\ f.strategy = RegretMatching(f.regret_sum_seen, f.num_actions)

\* a step changes at most the node of the innermost activation
InnermostNodeOnly ==
  \A key \in DOMAIN CfrNodes :
    (key \in DOMAIN nodes'[CfrWorker] /\ nodes'[CfrWorker][key] # CfrNodes[key]) =>
      /\ stack # << >>
      /\ key = get_information_set(Top.game)
      /\ \A k \in 1..(Len(stack) - 1) : get_information_set(stack[k].game) # key

\* C19: while a visit is between its get_strategy call and its regret
\* update no nested call touches its node: every nested call is of a state
\* with a strictly longer history, hence of another key, so the node found
\* for the regret update exists and holds the regret_sum the strategy was
\* derived from.  One iteration may still visit a key more than once.
C19_NoReentrantAccess == []NoReentry /\ [][InnermostNodeOnly]_vars

\* a key is looked up for the second time in one iteration, by a nested call
\* of a visit that is waiting for it
C19_Witness ==
  /\ Len(stack) >= 3
  /\ Top.pc = "loop"
  /\ stack[1].pc = "call"
  /\ \E j \in DOMAIN visits :
       j < Len(visits) /\ visits[j] = Top.info_set /\ visits[Len(visits)] = Top.info_set


(***************************************************************************)
(* Properties of SpecGame: the shape of a reached state                    *)
(***************************************************************************)

\* C20: in every state reached from a fresh one by valid actions the history
\* holds only bids, each strictly higher than the one before it by quantity
\* and then face; current_bid is absent exactly when the history is empty and
\* is otherwise the last bid of the history; current_player is the history
\* length modulo 2, so the player to act can be read off the count field of
\* the information-set key.
C20_HistoryShape ==
  LET h == game.history
      key_parts == split(get_information_set(game), "|")
  IN /\ \A i \in DOMAIN h : h[i].kind = "Bid"
     /\ \A i \in 1..(Len(h) - 1) : Higher(h[i + 1].q, h[i + 1].f, h[i].q, h[i].f)
     /\ (game.current_bid = None) <=> (h = << >>)
     /\ h # << >> => game.current_bid = Some(h[Len(h)].q, h[Len(h)].f)
     /\ game.current_player = Len(h) % 2
     /\ Len(key_parts) = 3
     /\ parse_u8(key_parts[3]) % 2 = game.current_player

\* a play of three bids, the second player's last one raising the quantity,
\* ended by the first player's challenge
C20_Witness ==
  /\ is_terminal
  /\ last_action = Challenge
  /\ Len(game.history) = 3
  /\ game.history[3].q > game.history[2].q
  /\ game.current_player = 1

====
